---------------------------- MODULE Spec2Model ----------------------------
(***************************************************************************)
(* A model of email_system.py: the watchlist identifier normaliser         *)
(* (infer_market_and_format, _extract_code_from_name,                      *)
(* resolve_code_by_name, get_user_watchlist), the per-entry analysis loop  *)
(* (generate_ai_content_for_watchlist with its two sources), the end-of-   *)
(* day summary (generate_eod_summary_ai) and the dispatch to the users     *)
(* (send_report, send_email).                                              *)
(*                                                                         *)
(* Text handled by the regular expressions is a sequence of characters,    *)
(* each character a one-letter string; the token "cjk" stands for any      *)
(* non-ASCII letter and "FW(" / "FW)" for the full-width brackets.         *)
(***************************************************************************)
EXTENDS Integers, Sequences, FiniteSets, TLC

VARIABLES
    pc,         \* position of the modelled call
    row,        \* NormSpec: the raw watchlist row [name, raw_code]
    search,     \* NormSpec: what _try_stock_scanner_search finds for the name
    rec,        \* NormSpec: the record get_user_watchlist built for the row
    again,      \* NormSpec: infer_market_and_format applied to rec.code
    watchlist,  \* Spec: the list handed to generate_ai_content_for_watchlist
    idx,        \* Spec: position of the loop in the watchlist (1-based)
    parts,      \* Spec: the list `parts`
    resp,       \* Spec: the primary source's exchange for the current entry
    ai_text,    \* Spec: the local ai_text of the current entry
    z,          \* Spec: the local z of the current entry
    calls,      \* Spec: the calls and requests made for the current entry
    served,     \* Spec: the entries for which a source returned content
    output,     \* Spec: the returned text, as its fragments
    user_watchlist, \* EodSpec: the list handed to generate_eod_summary_ai
    indices,        \* EodSpec: the change values get_market_index returned
    stock_quotes,   \* EodSpec: the list `stock_quotes`
    eod_content,    \* EodSpec: the `content` generate_eod_summary_ai returns
    users,          \* SendSpec: what get_users_with_email_enabled returned
    report_type,    \* SendSpec: the argument of send_report
    user_idx,       \* SendSpec: position of the loop in users (1-based)
    success_count,  \* SendSpec: the local success_count
    failed_count,   \* SendSpec: the local failed_count
    sent            \* SendSpec: the send_email calls, as <<user, result>>

vars == <<pc, row, search, rec, again, watchlist, idx, parts, resp, ai_text, z,
          calls, served, output, user_watchlist, indices, stock_quotes,
          eod_content, users, report_type, user_idx, success_count,
          failed_count, sent>>

eodVars == <<user_watchlist, indices, stock_quotes, eod_content>>

sendVars == <<users, report_type, user_idx, success_count, failed_count, sent>>

\* generate_eod_summary_ai has not been called
EodIdle ==
    /\ user_watchlist = <<>>
    /\ indices = <<>>
    /\ stock_quotes = <<>>
    /\ eod_content = [kind |-> "none"]

\* send_report has not been called
SendIdle ==
    /\ users = <<>>
    /\ report_type = "none"
    /\ user_idx = 0
    /\ success_count = 0
    /\ failed_count = 0
    /\ sent = <<>>

-----------------------------------------------------------------------------
(* Characters *)

DigitChars == {"0", "1", "2", "3", "4", "5", "6", "7", "8", "9"}

LowerSeq == <<"a","b","c","d","e","f","g","h","i","j","k","l","m",
              "n","o","p","q","r","s","t","u","v","w","x","y","z">>

UpperSeq == <<"A","B","C","D","E","F","G","H","I","J","K","L","M",
              "N","O","P","Q","R","S","T","U","V","W","X","Y","Z">>

LowerChars == {LowerSeq[i] : i \in 1..26}

UpperChars == {UpperSeq[i] : i \in 1..26}

LetterChars == LowerChars \cup UpperChars

AlnumChars == DigitChars \cup LetterChars

SpaceChars == {" "}

\* \w of a str pattern: letters of any script, digits, underscore
WordChars == AlnumChars \cup {"_", "cjk"}

LowerChar(c) ==
    IF c \in UpperChars THEN LowerSeq[CHOOSE i \in 1..26 : UpperSeq[i] = c] ELSE c

UpperChar(c) ==
    IF c \in LowerChars THEN UpperSeq[CHOOSE i \in 1..26 : LowerSeq[i] = c] ELSE c

StrLower(s) == [i \in 1..Len(s) |-> LowerChar(s[i])]

StrUpper(s) == [i \in 1..Len(s) |-> UpperChar(s[i])]

AllIn(s, S) == \A i \in 1..Len(s) : s[i] \in S

Drop(s, n) == SubSeq(s, n + 1, Len(s))

\* number of leading characters of s that are in S
RECURSIVE RunLen(_, _)
RunLen(s, S) ==
    IF s # <<>> /\ Head(s) \in S THEN 1 + RunLen(Tail(s), S) ELSE 0

\* number of characters in S from position i of s on (0 past the end)
RunAt(s, i, S) == IF i > Len(s) THEN 0 ELSE RunLen(Drop(s, i - 1), S)

\* number of trailing characters of s that are in S
RECURSIVE TrailLen(_, _)
TrailLen(s, S) ==
    IF s # <<>> /\ s[Len(s)] \in S
    THEN 1 + TrailLen(SubSeq(s, 1, Len(s) - 1), S) ELSE 0

\* str.strip()
Strip(s) ==
    LET a == RunLen(s, SpaceChars)
    IN  IF a = Len(s) THEN <<>>
        ELSE SubSeq(s, a + 1, Len(s) - TrailLen(s, SpaceChars))

\* str.lstrip("0")
LStripZeros(s) == Drop(s, RunLen(s, {"0"}))

\* a variant that leaves the leading zeros in place
StripZerosKept(s) == s

\* a variant without the `or x`: an all-zero numeral loses every digit
StripZerosOnly(s) == LStripZeros(s)

\* `x.lstrip("0") or x`
StripZerosOr(s) == IF LStripZeros(s) = <<>> THEN s ELSE LStripZeros(s)

\* re.sub(r'[\s\-_\.]', '', s)
RemoveSeparators(s) == SelectSeq(s, LAMBDA c : c \notin (SpaceChars \cup {"-", "_", "."}))

\* re.sub(r'\D', '', s)
OnlyDigits(s) == SelectSeq(s, LAMBDA c : c \in DigitChars)

StartsWith(s, p) == Len(s) >= Len(p) /\ SubSeq(s, 1, Len(p)) = p

EndsWith(s, p) == Len(s) >= Len(p) /\ SubSeq(s, Len(s) - Len(p) + 1, Len(s)) = p

\* Python's None where a string is expected: no character sequence equals it
None == <<"None">>

Truthy(s) == s # None /\ s # <<>>

-----------------------------------------------------------------------------
(* infer_market_and_format *)

\* r'^(sh|sz)(0*\d+)$' and r'^(hk)(0*\d+)$': the prefix, then one or more digits
PrefixedDigits(s, prefixes) ==
    /\ \E p \in prefixes : StartsWith(s, p)
    /\ Len(s) > 2
    /\ AllIn(Drop(s, 2), DigitChars)

\* a variant whose pattern is \d{5,6}
FiveOrSixDigitNumeral(s) == Len(s) \in {5, 6} /\ AllIn(s, DigitChars)

\* re.fullmatch(r'\d{6}', s)
SixDigitNumeral(s) == Len(s) = 6 /\ AllIn(s, DigitChars)

\* re.fullmatch(r'\d{4,5}', s)
FourFiveDigitNumeral(s) == Len(s) \in {4, 5} /\ AllIn(s, DigitChars)

infer_market_and_format(raw_code) ==
    IF ~Truthy(raw_code) THEN <<<<>>, "A">>
    ELSE
    LET s       == Strip(raw_code)
        s_low   == StrLower(s)
        s_clean == RemoveSeparators(s_low)
        digits  == OnlyDigits(s_clean)
    IN  IF PrefixedDigits(s_clean, {<<"s","h">>, <<"s","z">>})
            THEN <<StripZerosOr(Drop(s_clean, 2)), "A">>
        ELSE IF PrefixedDigits(s_clean, {<<"h","k">>})
            THEN <<StripZerosOr(Drop(s_clean, 2)), "HK">>
        ELSE IF SixDigitNumeral(s_clean)
            THEN <<StripZerosOr(s_clean), "A">>
        ELSE IF FourFiveDigitNumeral(s_clean)
            THEN <<StripZerosOr(s_clean), "HK">>
        ELSE IF /\ EndsWith(s_clean, <<"h","k">>)
                /\ Len(s_clean) - 2 \in 1..6
                /\ AllIn(SubSeq(s_clean, 1, Len(s_clean) - 2), DigitChars)
            THEN <<StripZerosOr(SubSeq(s_clean, 1, Len(s_clean) - 2)), "HK">>
        ELSE IF StartsWith(s_clean, <<"u","s">>)
            THEN <<StrUpper(Drop(s_clean, 2)), "US">>
        ELSE IF StartsWith(s_clean, <<"g","b">>)
            THEN <<StrUpper(Drop(s_clean, 2)), "US">>
        ELSE IF Len(s_clean) \in 1..6 /\ AllIn(s_clean, LetterChars)
            THEN <<StrUpper(s_clean), "US">>
        ELSE IF RunLen(s_clean, LetterChars) > 0
            THEN <<StrUpper(SubSeq(s_clean, 1, RunLen(s_clean, LetterChars))), "US">>
        ELSE IF digits # <<>>
            THEN IF Len(digits) = 6 THEN <<digits, "A">>
                 ELSE IF Len(digits) \in {4, 5} THEN <<digits, "HK">>
                 ELSE <<digits, "A">>
        ELSE <<StrUpper(s_clean), "US">>

-----------------------------------------------------------------------------
(* _extract_code_from_name: four searches, each the leftmost match *)

OpenBrackets == {"(", "FW(", "["}

CloseBrackets == {")", "FW)", "]"}

NoMarket == "None"

\* re.search: the smallest of the positions where the pattern matches,
\* 0 when it matches nowhere
FirstPos(matches) ==
    IF matches = {} THEN 0
    ELSE CHOOSE i \in matches : \A j \in matches : i <= j

\* r'[\(\（\[]\s*([0-9A-Za-z]{1,6})\s*[\)\）\]]' matched at position i
BracketStart(t, i) == i + 1 + RunAt(t, i + 1, SpaceChars)

BracketMatch(t, i) ==
    LET j == BracketStart(t, i)
        r == RunAt(t, j, AlnumChars)
        k == j + r + RunAt(t, j + r, SpaceChars)
    IN  /\ t[i] \in OpenBrackets
        /\ r \in 1..6
        /\ k <= Len(t)
        /\ t[k] \in CloseBrackets

\* r'([0-9A-Za-z]{4,6})(?:\s*$)' matched at position i
TrailingMatch(t, i) ==
    LET r == RunAt(t, i, AlnumChars)
    IN  /\ r \in 4..6
        /\ i + r + RunAt(t, i + r, SpaceChars) = Len(t) + 1

\* r'([0-9]{4,6})\s*[.\-/_]\s*(sh|sz|hk|us)?' matched at position i
DigitsSepMatch(t, i) ==
    LET r == RunAt(t, i, DigitChars)
        k == i + r + RunAt(t, i + r, SpaceChars)
    IN  /\ r \in 4..6
        /\ k <= Len(t)
        /\ t[k] \in {".", "-", "/", "_"}

\* r'\b([A-Za-z]{1,6})\b' matched at position i
WordMatch(t, i) ==
    LET r == RunAt(t, i, LetterChars)
    IN  /\ r \in 1..6
        /\ (i = 1 \/ t[i - 1] \notin WordChars)
        /\ (i + r > Len(t) \/ t[i + r] \notin WordChars)

_extract_code_from_name(text) ==
    IF ~Truthy(text) THEN None
    ELSE
    LET t  == Strip(text)
        m1 == FirstPos({i \in 1..Len(t) : BracketMatch(t, i)})
        m2 == FirstPos({i \in 1..Len(t) : TrailingMatch(t, i)})
        m3 == FirstPos({i \in 1..Len(t) : DigitsSepMatch(t, i)})
        m4 == FirstPos({i \in 1..Len(t) : WordMatch(t, i)})
    IN  IF m1 > 0
            THEN SubSeq(t, BracketStart(t, m1),
                        BracketStart(t, m1) + RunAt(t, BracketStart(t, m1), AlnumChars) - 1)
        ELSE IF m2 > 0 THEN SubSeq(t, m2, m2 + RunAt(t, m2, AlnumChars) - 1)
        ELSE IF m3 > 0 THEN SubSeq(t, m3, m3 + RunAt(t, m3, DigitChars) - 1)
        ELSE IF m4 > 0 THEN SubSeq(t, m4, m4 + RunAt(t, m4, LetterChars) - 1)
        ELSE None

-----------------------------------------------------------------------------
(* resolve_code_by_name and the row loop of get_user_watchlist *)

\* re.findall(r'[A-Za-z]{1,6}', name)[0], None when the list is empty
FirstLetters(name) ==
    LET i == FirstPos({k \in 1..Len(name) : name[k] \in LetterChars})
    IN  IF i = 0 THEN None
        ELSE SubSeq(name, i, i + (IF RunAt(name, i, LetterChars) > 6 THEN 6
                                  ELSE RunAt(name, i, LetterChars)) - 1)

\* the first candidate of `found` that normalises to a non-empty code;
\* `found` lists, in the order the code reads them, the truthy values that
\* the search result holds under the keys code, stock_code, symbol, ticker, id
RECURSIVE FirstResolvable(_)
FirstResolvable(found) ==
    IF found = <<>> THEN <<None, NoMarket>>
    ELSE IF infer_market_and_format(Head(found))[1] # <<>>
         THEN infer_market_and_format(Head(found))
         ELSE FirstResolvable(Tail(found))

resolve_code_by_name(name, found) ==
    IF ~Truthy(name) THEN <<None, NoMarket>>
    ELSE
    LET direct  == _extract_code_from_name(name)
        letters == FirstLetters(name)
    IN  IF Truthy(direct) /\ infer_market_and_format(direct)[1] # <<>>
            THEN infer_market_and_format(direct)
        ELSE IF FirstResolvable(found)[1] # None
            THEN FirstResolvable(found)
        ELSE IF Truthy(letters) /\ infer_market_and_format(letters)[1] # <<>>
            THEN infer_market_and_format(letters)
        ELSE <<None, NoMarket>>

\* a variant that records the market as it was resolved
MarketAsResolved(market) == market

\* market or "A" (line 420)
MarketOrA(market) == IF market = NoMarket THEN "A" ELSE market

\* one iteration of the loop over rows in get_user_watchlist
NormalizeRow(name0, raw0, found) ==
    LET name     == Strip(name0)
        raw_code == Strip(raw0)
        res      == IF raw_code # <<>> THEN infer_market_and_format(raw_code)
                    ELSE resolve_code_by_name(name, found)
        code     == IF Truthy(res[1]) THEN res[1] ELSE <<>>
    IN  [name     |-> IF name # <<>> THEN name
                      ELSE IF code # <<>> THEN code ELSE raw_code,
         raw_code |-> raw_code,
         code     |-> code,
         market   |-> MarketOrA(res[2])]

-----------------------------------------------------------------------------
(* Python values the two sources hand back: the type and what str() gives *)

PyNone == [t |-> "NoneType", s |-> "None"]

PyStr(x) == [t |-> "str", s |-> x]

PyInt(x) == [t |-> "int", s |-> x]

PyList(x) == [t |-> "list", s |-> x]

\* a dict with the fields f (a function from its keys to values)
PyDict(f) == [t |-> "dict", s |-> IF DOMAIN f = {} THEN "{}" ELSE "{...}", f |-> f]

\* bool(v)
IsTrue(v) ==
    IF v.t = "NoneType" THEN FALSE
    ELSE IF v.t = "str" THEN v.s # ""
    ELSE IF v.t = "int" THEN v.s # "0"
    ELSE IF v.t = "list" THEN v.s # "[]"
    ELSE v.s # "{}"

\* str(v)
StrOf(v) == IF v.t = "str" THEN v ELSE PyStr(v.s)

-----------------------------------------------------------------------------
(* The primary source: _call_stock_scanner and get_ai_analysis_for_stock *)

\* a variant that takes only a JSON body for an answer
JsonOnly(r) ==
    IF r.transport # "ok" \/ r.status # 200 \/ ~r.is_json THEN PyNone ELSE r.json

\* _call_stock_scanner of an exchange r: transport is "no_url" (nothing is
\* requested), "connection_error", "timeout" (any other exception of
\* requests.get) or "ok" with the status and the body; is_json tells whether
\* resp.json() parses the body, text is resp.text
_call_stock_scanner(r) ==
    IF r.transport # "ok" THEN PyNone
    ELSE IF r.status # 200 THEN PyNone
    ELSE IF r.is_json THEN r.json
    ELSE PyStr(r.text)

AnalysisKeys == <<"ai_analysis", "ai", "content", "html", "data", "result">>

\* the loop over the keys, from key number k on
RECURSIVE FirstAnalysisField(_, _)
FirstAnalysisField(res, k) ==
    IF k > Len(AnalysisKeys) THEN StrOf(res)
    ELSE IF AnalysisKeys[k] \in DOMAIN res.f /\ IsTrue(res.f[AnalysisKeys[k]])
         THEN IF /\ res.f[AnalysisKeys[k]].t = "dict"
                 /\ "content" \in DOMAIN res.f[AnalysisKeys[k]].f
              THEN res.f[AnalysisKeys[k]].f["content"]
              ELSE res.f[AnalysisKeys[k]]
         ELSE FirstAnalysisField(res, k + 1)

get_ai_analysis_for_stock(stock_code, r) ==
    IF stock_code = <<>> THEN PyNone
    ELSE LET res == _call_stock_scanner(r)
         IN  IF ~IsTrue(res) THEN PyNone
             ELSE IF res.t = "dict" THEN FirstAnalysisField(res, 1)
             ELSE StrOf(res)

\* the requests get_ai_analysis_for_stock sends in the exchange r
ScannerRequests(stock_code, r) ==
    IF stock_code = <<>> \/ r.transport = "no_url" THEN <<>>
    ELSE <<"GET /stock_ai_analysis">>

\* no exchange with the primary source has taken place
NoExchange ==
    [transport |-> "none", status |-> 0, is_json |-> FALSE, json |-> PyNone, text |-> ""]

-----------------------------------------------------------------------------
(* The fallback: _call_zhipu *)

\* what _call_zhipu returns in the exchange q: client tells whether
\* get_zhipu_client gives a client, chat and create how
\* chat.completions.create and client.create end ("returns", "raises";
\* "hangs" is a call that never returns), shape and content what the
\* response holds
_call_zhipu(q) ==
    IF ~q.client THEN PyNone
    ELSE IF q.chat = "raises" /\ q.create = "raises" THEN PyNone
    ELSE IF q.shape = "choices" THEN (IF IsTrue(q.content) THEN q.content ELSE PyNone)
    ELSE IF q.shape = "broken" THEN PyNone
    ELSE StrOf(q.content)

\* whether _call_zhipu returns at all in the exchange q
ZhipuReturns(q) ==
    \/ ~q.client
    \/ q.chat = "returns"
    \/ q.chat = "raises" /\ q.create # "hangs"

\* the requests _call_zhipu sends in the exchange q
ZhipuRequests(q) ==
    IF ~q.client THEN <<>>
    ELSE IF q.chat = "raises" THEN <<"chat.completions.create", "client.create">>
    ELSE <<"chat.completions.create">>

-----------------------------------------------------------------------------
(* Inputs of the normaliser *)

MaxDigits == 6

MaxMixed == 3

MaxName == 3

SeqsUpTo(S, n) == UNION {[1..k -> S] : k \in 0..n}

\* the code tells "0" from the other digits, and those from each other nowhere
DigitInputs == SeqsUpTo({"0", "5", "7"}, MaxDigits)

MixedInputs == SeqsUpTo({"0", "7", "h", "k", "s", "u", "A", "-"}, MaxMixed)

\* the examples of the docstring of infer_market_and_format and of the
\* report's documentation
ExampleCodes ==
    { <<"6","0","0","5","1","9">>, <<"s","h","6","0","0","5","1","9">>,
      <<"0","7","0","0">>, <<"7","0","0">>, <<"0","0","7","0","0">>,
      <<"A","A","P","L">>, <<"s","z","0","0","0","0","0","1">>,
      <<"g","b","_","a","a","p","l">>, <<"0","0","7","0","0",".","H","K">> }

MyFavorite ==
    <<"M","y"," ","F","a","v","o","r","i","t","e"," ","(","0","0","0","5",")">>

NameInputs ==
    SeqsUpTo({"(", ")", "0", "5", "a", " ", "cjk"}, MaxName) \cup {MyFavorite}

\* what the name search finds: nothing, or candidates in the order of the keys
SearchInputs ==
    { <<>>, << <<"7","0","0">> >>, << <<"u","s">>, <<"0","7","0","0">> >> }

EmptyRec == [name |-> <<>>, raw_code |-> <<>>, code |-> <<>>, market |-> "A"]

-----------------------------------------------------------------------------
(* NormSpec: one row of user_watchlist through get_user_watchlist *)

NormInit ==
    /\ pc = "row"
    /\ \/ /\ row \in [name : {<<>>}, raw_code : DigitInputs \cup MixedInputs \cup ExampleCodes]
          /\ search = <<>>
       \/ /\ row \in [name : NameInputs, raw_code : {<<>>}]
          /\ search \in SearchInputs
    /\ rec = EmptyRec
    /\ again = <<<<>>, "A">>
    /\ watchlist = <<>>
    /\ idx = 0
    /\ parts = <<>>
    /\ resp = NoExchange
    /\ ai_text = PyNone
    /\ z = PyNone
    /\ calls = <<>>
    /\ served = {}
    /\ output = <<>>
    /\ EodIdle
    /\ SendIdle

\* the body of `for row in rows` (lines 407-421)
NormalizeWatchlistRow ==
    /\ pc = "row"
    /\ rec' = NormalizeRow(row.name, row.raw_code, search)
    /\ pc' = "normalized"
    /\ UNCHANGED <<row, search, again, watchlist, idx, parts, resp, ai_text, z,
                   calls, served, output, eodVars, sendVars>>

\* the canonical code of a record handed to infer_market_and_format again
Renormalize ==
    /\ pc = "normalized"
    /\ rec.code # <<>>
    /\ again' = infer_market_and_format(rec.code)
    /\ pc' = "renormalized"
    /\ UNCHANGED <<row, search, rec, watchlist, idx, parts, resp, ai_text, z,
                   calls, served, output, eodVars, sendVars>>

NormNext == NormalizeWatchlistRow \/ Renormalize

NormSpec == NormInit /\ [][NormNext]_vars

-----------------------------------------------------------------------------
(* Exchanges with the two sources *)

MaxFields == 2

Failure(transport) ==
    [transport |-> transport, status |-> 0, is_json |-> FALSE, json |-> PyNone, text |-> ""]

TextBody(status, text) ==
    [transport |-> "ok", status |-> status, is_json |-> FALSE, json |-> PyNone, text |-> text]

JsonBody(status, json) ==
    [transport |-> "ok", status |-> status, is_json |-> TRUE, json |-> json, text |-> "(json)"]

\* the first, a middle and the last key the code reads, and one it does not
FieldKeys == {"ai_analysis", "data", "result", "message"}

FieldValues ==
    { PyNone, PyStr(""), PyStr("analysis"),
      PyDict([k \in {"content"} |-> PyStr("nested")]),
      PyDict([k \in {"content"} |-> PyStr("")]),
      PyDict([k \in {"detail"} |-> PyStr("x")]) }

JsonDicts ==
    { PyDict(f) : f \in UNION { [K -> FieldValues] :
                      K \in {K \in SUBSET FieldKeys : Cardinality(K) <= MaxFields} } }

JsonScalars == {PyNone, PyStr(""), PyStr("text"), PyInt("0"), PyInt("7"), PyList("[]"), PyList("[1]")}

GoodAnswer == JsonBody(200, PyDict([k \in {"ai_analysis"} |-> PyStr("analysis")]))

ScannerExchanges ==
    {Failure("no_url"), Failure("connection_error"), Failure("timeout")}
    \cup {TextBody(st, tx) : st \in {200, 204, 404, 500}, tx \in {"", "Bad Gateway"}}
    \cup {JsonBody(st, GoodAnswer.json) : st \in {204, 404, 500}}
    \cup {JsonBody(200, j) : j \in JsonScalars \cup JsonDicts}

\* requests.get gives up after 40 s, or the source answers
BatchScannerExchanges == {Failure("timeout"), GoodAnswer}

Zhipu(client, chat, create, shape, content) ==
    [client |-> client, chat |-> chat, create |-> create, shape |-> shape, content |-> content]

ZhipuExchanges ==
    {Zhipu(FALSE, "none", "none", "none", PyNone)}
    \cup {Zhipu(TRUE, "hangs", "none", "none", PyNone),
          Zhipu(TRUE, "raises", "hangs", "none", PyNone),
          Zhipu(TRUE, "raises", "raises", "none", PyNone)}
    \cup {Zhipu(TRUE, ch[1], ch[2], sh, c) :
            ch \in {<<"returns", "none">>, <<"raises", "returns">>},
            sh \in {"choices", "broken", "other"},
            c \in {PyNone, PyStr(""), PyStr("glm")}}

BatchZhipuExchanges ==
    {Zhipu(TRUE, "hangs", "none", "none", PyNone),
     Zhipu(TRUE, "raises", "raises", "none", PyNone),
     Zhipu(TRUE, "returns", "none", "choices", PyStr("glm"))}

-----------------------------------------------------------------------------
(* generate_ai_content_for_watchlist *)

MaxWatch == 9

MaxAnalysed == 8

Min(a, b) == IF a < b THEN a ELSE b

Raw(name, raw_code) == [name |-> name, raw_code |-> raw_code]

\* tables of user_watchlist rows: all with a code; with a name that resolves
\* to nothing and a row that is empty altogether; the same in threes
RowTables ==
    { << Raw(<<"M","T">>, <<"s","h","6","0","0","5","1","9">>),
         Raw(<<>>, <<"0","0","7","0","0">>) >>,
      << Raw(<<"M","T">>, <<"s","h","6","0","0","5","1","9">>),
         Raw(<<"cjk","cjk">>, <<>>),
         Raw(<<>>, <<"A","A","P","L">>),
         Raw(<<>>, <<>>) >>,
      << Raw(<<"M","T">>, <<"s","h","6","0","0","5","1","9">>),
         Raw(<<"cjk","cjk">>, <<>>),
         Raw(<<>>, <<>>) >> }

\* what get_user_watchlist returns for the first n rows of the table repeated
WatchlistOf(table, n) ==
    [i \in 1..n |-> NormalizeRow(table[((i - 1) % Len(table)) + 1].name,
                                 table[((i - 1) % Len(table)) + 1].raw_code, <<>>)]

\* a variant that analyses the first five entries only
FirstFive(w) == SubSeq(w, 1, Min(Len(w), 5))

\* (watchlist or [])[:8]
Analysed(w) == SubSeq(w, 1, Min(Len(w), MaxAnalysed))

\* the text "unknown" of line 487
Unknown == <<"cjk", "cjk">>

\* a variant that takes the name field as it is
NameField(s) == s.name

\* s.get("name") or code or s.get("raw_code") or "unknown"
DisplayName(s) ==
    IF s.name # <<>> THEN s.name
    ELSE IF s.code # <<>> THEN s.code
    ELSE IF s.raw_code # <<>> THEN s.raw_code
    ELSE Unknown

\* a variant that asks the fallback whatever the primary source returned
NeverAnswered(t) == FALSE

\* `if ai_text:` and `if z:`
Answered(t) == IsTrue(t)

\* one element of `parts`: kind is the text pattern of line 489 ("nocode"),
\* of lines 493 and 498 ("analysis") or of line 500 ("unavailable"); src is
\* the position of the entry it was built from and tier the source of body
Part(kind, tier, i, s, body) ==
    [kind |-> kind, tier |-> tier, src |-> i, name |-> DisplayName(s),
     code |-> s.code, market |-> s.market, body |-> body]

\* the text returned for an empty `parts` (line 502)
NoAnalysisNotice ==
    [kind |-> "no_analysis", tier |-> "none", src |-> 0, name |-> <<>>,
     code |-> <<>>, market |-> "A", body |-> PyNone]

BatchInit(tables, lengths) ==
    /\ pc = "loop"
    /\ \E table \in tables, n \in lengths : watchlist = WatchlistOf(table, n)
    /\ idx = 1
    /\ parts = <<>>
    /\ resp = NoExchange
    /\ ai_text = PyNone
    /\ z = PyNone
    /\ calls = <<>>
    /\ served = {}
    /\ output = <<>>
    /\ row = Raw(<<>>, <<>>)
    /\ search = <<>>
    /\ rec = EmptyRec
    /\ again = <<<<>>, "A">>
    /\ EodIdle
    /\ SendIdle

normVars == <<row, search, rec, again>>

\* a variant that passes over an entry without a code
SkipWithoutPart ==
    /\ pc = "loop"
    /\ idx <= Len(Analysed(watchlist))
    /\ watchlist[idx].code = <<>>
    /\ idx' = idx + 1
    /\ resp' = NoExchange
    /\ ai_text' = PyNone
    /\ z' = PyNone
    /\ calls' = <<>>
    /\ UNCHANGED <<pc, watchlist, parts, served, output, normVars, eodVars, sendVars>>

\* lines 488-490: an entry without a code
SkipNoCode ==
    /\ pc = "loop"
    /\ idx <= Len(Analysed(watchlist))
    /\ watchlist[idx].code = <<>>
    /\ parts' = Append(parts, Part("nocode", "none", idx, watchlist[idx], PyNone))
    /\ idx' = idx + 1
    /\ resp' = NoExchange
    /\ ai_text' = PyNone
    /\ z' = PyNone
    /\ calls' = <<>>
    /\ UNCHANGED <<pc, watchlist, served, output, normVars, eodVars, sendVars>>

\* lines 491-493: the primary source is asked, and its content is taken
AskPrimary(exchanges) ==
    /\ pc = "loop"
    /\ idx <= Len(Analysed(watchlist))
    /\ watchlist[idx].code # <<>>
    /\ \E r \in exchanges :
         LET t == get_ai_analysis_for_stock(watchlist[idx].code, r)
         IN  /\ resp' = r
             /\ ai_text' = t
             /\ z' = PyNone
             /\ calls' = <<"get_ai_analysis_for_stock">>
                            \o ScannerRequests(watchlist[idx].code, r)
             /\ IF Answered(t)
                THEN /\ parts' = Append(parts, Part("analysis", "primary", idx, watchlist[idx], t))
                     /\ idx' = idx + 1
                     /\ served' = served \cup {idx}
                     /\ pc' = "loop"
                ELSE /\ pc' = "fallback"
                     /\ UNCHANGED <<parts, idx, served>>
    /\ UNCHANGED <<watchlist, output, normVars, eodVars, sendVars>>

\* lines 495-500: the fallback is asked; its content is taken, or the static
\* text is; a call that never returns leaves the loop where it is
AskFallback(exchanges) ==
    /\ pc = "fallback"
    /\ \E q \in exchanges :
         /\ calls' = calls \o <<"_call_zhipu">> \o ZhipuRequests(q)
         /\ IF ~ZhipuReturns(q)
            THEN /\ pc' = "blocked"
                 /\ UNCHANGED <<parts, idx, z, served>>
            ELSE /\ z' = _call_zhipu(q)
                 /\ IF Answered(_call_zhipu(q))
                    THEN /\ parts' = Append(parts, Part("analysis", "fallback", idx,
                                                        watchlist[idx], _call_zhipu(q)))
                         /\ served' = served \cup {idx}
                    ELSE /\ parts' = Append(parts, Part("unavailable", "static", idx,
                                                        watchlist[idx], PyNone))
                         /\ UNCHANGED served
                 /\ idx' = idx + 1
                 /\ pc' = "loop"
    /\ UNCHANGED <<watchlist, resp, ai_text, output, normVars, eodVars, sendVars>>

\* a variant that joins the parts last to first
ReturnLatestFirst ==
    /\ pc = "loop"
    /\ idx > Len(Analysed(watchlist))
    /\ output' = IF parts = <<>> THEN <<NoAnalysisNotice>>
                  ELSE [k \in 1..Len(parts) |-> parts[Len(parts) + 1 - k]]
    /\ pc' = "done"
    /\ UNCHANGED <<watchlist, idx, parts, resp, ai_text, z, calls, served, normVars,
                   eodVars, sendVars>>

\* lines 501-503
ReturnContent ==
    /\ pc = "loop"
    /\ idx > Len(Analysed(watchlist))
    /\ output' = IF parts = <<>> THEN <<NoAnalysisNotice>> ELSE parts
    /\ pc' = "done"
    /\ UNCHANGED <<watchlist, idx, parts, resp, ai_text, z, calls, served, normVars, eodVars, sendVars>>

Init == BatchInit(RowTables, 0..MaxWatch)

Next ==
    \/ SkipNoCode
    \/ AskPrimary(BatchScannerExchanges)
    \/ AskFallback(BatchZhipuExchanges)
    \/ ReturnContent

Spec == Init /\ [][Next]_vars

\* ChainSpec: one entry, with every exchange of the two sources
\* the watchlists of one entry
SingleRows == UNION { {<<table[i]>> : i \in 1..Len(table)} : table \in RowTables }

ChainInit == BatchInit(SingleRows, {1})

ChainNext ==
    \/ SkipNoCode
    \/ AskPrimary(ScannerExchanges)
    \/ AskFallback(ZhipuExchanges)
    \/ ReturnContent

ChainSpec == ChainInit /\ [][ChainNext]_vars

-----------------------------------------------------------------------------
(* get_stock_quote and generate_eod_summary_ai *)

MaxEod == 2

\* d.get(k) of a dict d
Get(d, k) == IF k \in DOMAIN d.f THEN d.f[k] ELSE PyNone

\* a or b
Or(a, b) == IF IsTrue(a) THEN a ELSE b

\* the str stock_code as a Python value
PyCode(stock_code) == [t |-> "str", s |-> "(stock_code)", code |-> stock_code]

\* the fields of `mapped` the reports read (lines 435-446)
get_stock_quote(stock_code, r) ==
    IF stock_code = <<>> THEN PyNone
    ELSE LET res == _call_stock_scanner(r)
         IN  IF ~IsTrue(res) THEN PyNone
             ELSE IF res.t # "dict" THEN PyNone
             ELSE LET src == IF "data" \in DOMAIN res.f /\ res.f["data"].t = "dict"
                             THEN res.f["data"] ELSE res
                  IN  PyDict([k \in {"code", "name", "price", "change"} |->
                        IF k = "code" THEN Or(Get(src, "code"), PyCode(stock_code))
                        ELSE IF k = "name"
                            THEN Or(Get(src, "name"), Or(Get(src, "stock_name"), PyStr("")))
                        ELSE IF k = "price"
                            THEN Or(Get(src, "price"),
                                    Or(Get(src, "now"), Or(Get(src, "close"), PyInt("0"))))
                        ELSE Or(Get(src, "change"),
                                Or(Get(src, "chg"), Or(Get(src, "percent"), PyInt("0"))))])

\* the numerals of the model and their values, in tenths
Numerals == [n \in {"0", "7", "-3", "1.5"} |->
                IF n = "0" THEN 0 ELSE IF n = "7" THEN 70 ELSE IF n = "-3" THEN 0 - 30 ELSE 15]

\* float(v): the number, or the ValueError / TypeError it raises
Float(v) ==
    IF v.t \in {"int", "str"} /\ v.s \in DOMAIN Numerals
    THEN [ok |-> TRUE, n |-> Numerals[v.s]]
    ELSE [ok |-> FALSE, n |-> 0]

\* the sort key of line 601: float(x.get("change") or 0)
ChangeKey(x) == Float(Or(Get(x, "change"), PyInt("0")))

\* change = float(idx.get("change") or 0), 0 when that raises (lines 595-598)
IndexChange(v) ==
    IF Float(Or(v, PyInt("0"))).ok THEN Float(Or(v, PyInt("0"))).n ELSE 0

\* q put into the list qs, sorted by falling key, behind the elements whose
\* key is not smaller: sorted(..., reverse=True) keeps the order of equal keys
RECURSIVE InsertByChange(_, _)
InsertByChange(qs, q) ==
    IF qs = <<>> THEN <<q>>
    ELSE IF ChangeKey(Head(qs)).n >= ChangeKey(q).n
         THEN <<Head(qs)>> \o InsertByChange(Tail(qs), q)
         ELSE <<q>> \o qs

RECURSIVE SortedByChange(_)
SortedByChange(qs) ==
    IF qs = <<>> THEN <<>>
    ELSE InsertByChange(SortedByChange(SubSeq(qs, 1, Len(qs) - 1)), qs[Len(qs)])

\* whether sorted() of line 601 raises
SortRaises(qs) == \E k \in 1..Len(qs) : ~ChangeKey(qs[k]).ok

\* generate_default_eod_summary: the names of the first five entries
generate_default_eod_summary(w) ==
    [kind |-> "default", names |-> [k \in 1..Min(Len(w), 5) |-> w[k].name]]

\* the content of lines 613-623
EodReport(ix, qs, ai_block) ==
    LET sorted_by_change == SortedByChange(qs)
    IN  [kind |-> "report",
         market_context |-> [k \in 1..Len(ix) |-> IndexChange(ix[k])],
         top_gainers |-> SubSeq(sorted_by_change, 1, Min(Len(qs), 3)),
         top_losers |-> SubSeq(sorted_by_change, Len(qs) - Min(Len(qs), 3) + 1, Len(qs)),
         ai_block |-> ai_block]

\* what get_market_index hands back: the change values of the indices found
IndexInputs == { <<>>, <<PyStr("N/A")>>, <<PyInt("7"), PyNone>> }

\* answers of /stock_price: none, a text body, and quotes whose change is a
\* number, a numeral in a string, missing, or a text that is no numeral
QuoteExchanges ==
    { Failure("timeout"),
      TextBody(200, "Bad Gateway"),
      JsonBody(200, PyDict([k \in {"name", "change"} |->
                              IF k = "name" THEN PyStr("MT") ELSE PyInt("7")])),
      JsonBody(200, PyDict([k \in {"chg"} |-> PyStr("1.5")])),
      JsonBody(200, PyDict([k \in {"data"} |-> PyDict([j \in {"percent"} |-> PyInt("-3")])])),
      JsonBody(200, PyDict([k \in {"price"} |-> PyInt("7")])),
      JsonBody(200, PyDict([k \in {"name", "change"} |->
                              IF k = "name" THEN PyStr("MT") ELSE PyStr("N/A")])) }

EodInit ==
    /\ pc = "eod"
    /\ \E table \in RowTables, n \in 0..MaxEod : user_watchlist = WatchlistOf(table, n)
    /\ indices = <<>>
    /\ stock_quotes = <<>>
    /\ eod_content = [kind |-> "none"]
    /\ watchlist = <<>>
    /\ idx = 1
    /\ parts = <<>>
    /\ resp = NoExchange
    /\ ai_text = PyNone
    /\ z = PyNone
    /\ calls = <<>>
    /\ served = {}
    /\ output = <<>>
    /\ row = Raw(<<>>, <<>>)
    /\ search = <<>>
    /\ rec = EmptyRec
    /\ again = <<<<>>, "A">>
    /\ SendIdle

batchVars == <<watchlist, parts, resp, ai_text, z, calls, served, output>>

\* line 583
GetMarketIndex ==
    /\ pc = "eod"
    /\ indices' \in IndexInputs
    /\ pc' = "quotes"
    /\ UNCHANGED <<user_watchlist, stock_quotes, eod_content, idx, batchVars,
                   normVars, sendVars>>

\* lines 585-592: one entry of watchlist[:20]
FetchQuote ==
    /\ pc = "quotes"
    /\ idx <= Min(Len(user_watchlist), 20)
    /\ IF user_watchlist[idx].code = <<>>
       THEN UNCHANGED stock_quotes
       ELSE \E r \in QuoteExchanges :
              LET q == get_stock_quote(user_watchlist[idx].code, r)
              IN  stock_quotes' = IF IsTrue(q) THEN Append(stock_quotes, q)
                                  ELSE stock_quotes
    /\ idx' = idx + 1
    /\ UNCHANGED <<pc, user_watchlist, indices, eod_content, batchVars, normVars,
                   sendVars>>

\* lines 593-612 and 625-627: the market context, the sort of the quotes and
\* the two lists; an exception of the sort is caught by the handler of the
\* function body, which returns the default summary; otherwise
\* generate_ai_content_for_watchlist is called with watchlist[:5]
RankQuotes ==
    /\ pc = "quotes"
    /\ idx > Min(Len(user_watchlist), 20)
    /\ IF SortRaises(stock_quotes)
       THEN /\ eod_content' = generate_default_eod_summary(user_watchlist)
            /\ pc' = "returned"
            /\ UNCHANGED <<watchlist, idx>>
       ELSE /\ watchlist' = SubSeq(user_watchlist, 1, Min(Len(user_watchlist), 5))
            /\ idx' = 1
            /\ pc' = "loop"
            /\ UNCHANGED eod_content
    /\ UNCHANGED <<user_watchlist, indices, stock_quotes, parts, resp, ai_text, z,
                   calls, served, output, normVars, sendVars>>

\* lines 613-624
ReturnEodSummary ==
    /\ pc = "done"
    /\ eod_content' = EodReport(indices, stock_quotes, output)
    /\ pc' = "returned"
    /\ UNCHANGED <<user_watchlist, indices, stock_quotes, idx, batchVars, normVars,
                   sendVars>>

EodNext ==
    \/ GetMarketIndex
    \/ FetchQuote
    \/ RankQuotes
    \/ SkipNoCode
    \/ AskPrimary(BatchScannerExchanges)
    \/ AskFallback(BatchZhipuExchanges)
    \/ ReturnContent
    \/ ReturnEodSummary

EodSpec == EodInit /\ [][EodNext]_vars

-----------------------------------------------------------------------------
(* send_report and send_email *)

MaxUsers == 3

ValidTypes == {"morning_brief", "midday_review", "eod_summary"}

\* a record of user_email_preferences: the fields send_report reads
User(email, contact) == [email |-> email, contact |-> contact]

UserRecords == { User("a@x.io", ""), User("", "c@x.io"), User("", "") }

\* user.get("email") or user.get("contact") or ""
EmailOf(user) == IF user.email # "" THEN user.email ELSE user.contact

\* how the SMTP session of send_email ends
SmtpOutcomes == {"sent", "SMTPAuthenticationError", "SMTPException", "Exception"}

\* what send_email returns
send_email(outcome) == outcome = "sent"

SendInit ==
    /\ pc = "send_report"
    /\ report_type \in ValidTypes \cup {"weekly"}
    /\ users \in SeqsUpTo(UserRecords, MaxUsers)
    /\ user_idx = 0
    /\ success_count = 0
    /\ failed_count = 0
    /\ sent = <<>>
    /\ EodIdle
    /\ watchlist = <<>>
    /\ idx = 0
    /\ parts = <<>>
    /\ resp = NoExchange
    /\ ai_text = PyNone
    /\ z = PyNone
    /\ calls = <<>>
    /\ served = {}
    /\ output = <<>>
    /\ row = Raw(<<>>, <<>>)
    /\ search = <<>>
    /\ rec = EmptyRec
    /\ again = <<<<>>, "A">>

otherVars == <<row, search, rec, again, watchlist, idx, parts, resp, ai_text, z,
               calls, served, output, eodVars>>

\* lines 690-697
GetUsers ==
    /\ pc = "send_report"
    /\ IF users = <<>> THEN pc' = "done" ELSE pc' = "users"
    /\ user_idx' = 1
    /\ UNCHANGED <<users, report_type, success_count, failed_count, sent, otherVars>>

\* a variant that passes over a user without an address
SkipUserUncounted ==
    /\ pc = "users"
    /\ user_idx <= Len(users)
    /\ EmailOf(users[user_idx]) = ""
    /\ user_idx' = user_idx + 1
    /\ UNCHANGED <<pc, users, report_type, success_count, failed_count, sent, otherVars>>

\* lines 702-705
SkipUserWithoutEmail ==
    /\ pc = "users"
    /\ user_idx <= Len(users)
    /\ EmailOf(users[user_idx]) = ""
    /\ failed_count' = failed_count + 1
    /\ user_idx' = user_idx + 1
    /\ UNCHANGED <<pc, users, report_type, success_count, sent, otherVars>>

\* lines 706-713: the watchlist is read and the report generated; the three
\* generators return a text whatever happens in them, unless the fallback
\* call of generate_ai_content_for_watchlist never returns
GenerateContent ==
    /\ pc = "users"
    /\ user_idx <= Len(users)
    /\ EmailOf(users[user_idx]) # ""
    /\ report_type \in ValidTypes
    /\ \E returns \in BOOLEAN : pc' = IF returns THEN "send" ELSE "blocked"
    /\ UNCHANGED <<users, report_type, user_idx, success_count, failed_count, sent,
                   otherVars>>

\* lines 714-717
RejectReportType ==
    /\ pc = "users"
    /\ user_idx <= Len(users)
    /\ EmailOf(users[user_idx]) # ""
    /\ report_type \notin ValidTypes
    /\ failed_count' = failed_count + 1
    /\ user_idx' = user_idx + 1
    /\ UNCHANGED <<pc, users, report_type, success_count, sent, otherVars>>

\* lines 718-724
SendReportEmail ==
    /\ pc = "send"
    /\ \E outcome \in SmtpOutcomes :
         /\ sent' = Append(sent, <<user_idx, send_email(outcome)>>)
         /\ IF send_email(outcome)
            THEN success_count' = success_count + 1 /\ UNCHANGED failed_count
            ELSE failed_count' = failed_count + 1 /\ UNCHANGED success_count
    /\ user_idx' = user_idx + 1
    /\ pc' = "users"
    /\ UNCHANGED <<users, report_type, otherVars>>

\* lines 725-727
FinishReport ==
    /\ pc = "users"
    /\ user_idx > Len(users)
    /\ pc' = "done"
    /\ UNCHANGED <<users, report_type, user_idx, success_count, failed_count, sent,
                   otherVars>>

SendNext ==
    \/ GetUsers
    \/ SkipUserWithoutEmail
    \/ GenerateContent
    \/ RejectReportType
    \/ SendReportEmail
    \/ FinishReport

SendSpec == SendInit /\ [][SendNext]_vars

-----------------------------------------------------------------------------
(* Properties of the normaliser, checked under NormSpec *)

CodeRow(code) == [name |-> <<>>, raw_code |-> code]

Normalized == pc \in {"normalized", "renormalized"}

\* C6 (as claimed): normalisation is idempotent: when infer_market_and_format
\* turns a raw code into a non-empty symbol s with market m, it turns s into
\* the same s with the same m.
C6_Idempotent ==
    (pc = "renormalized" /\ row.raw_code # <<>>) => again = <<rec.code, rec.market>>

\* the four documented inputs and what each normalises to, the name
\* "My Favorite (0005)" (no raw code) normalising to `favorite`
ExamplesGive(favorite) ==
    Normalized =>
        /\ row = CodeRow(<<"s","h","6","0","0","5","1","9">>)
              => <<rec.code, rec.market>> = << <<"6","0","0","5","1","9">>, "A" >>
        /\ row = CodeRow(<<"0","0","7","0","0">>)
              => <<rec.code, rec.market>> = << <<"7","0","0">>, "HK" >>
        /\ row = CodeRow(<<"A","A","P","L">>)
              => <<rec.code, rec.market>> = << <<"A","A","P","L">>, "US" >>
        /\ row = [name |-> MyFavorite, raw_code |-> <<>>]
              => <<rec.code, rec.market>> = <<favorite, "HK">>

\* C7 (as claimed): "sh600519", "00700", "AAPL" and the name
\* "My Favorite (0005)" normalise to ("600519","A"), ("700","HK"),
\* ("AAPL","US") and ("0005","HK").
C7_ExamplesAsClaimed == ExamplesGive(<<"0","0","0","5">>)

\* C7 (amended): the first three as claimed, and "My Favorite (0005)"
\* normalises to ("5","HK"): the code extracted from the brackets is a
\* four-digit numeral, whose leading zeros are stripped like those of "00700".
C7_Examples == ExamplesGive(<<"5">>)

C7_Witness ==
    /\ pc = "normalized"
    /\ row = [name |-> MyFavorite, raw_code |-> <<>>]
    /\ rec.code = <<"5">>

\* C8: a raw code of exactly six decimal digits gets market A and its digits
\* without the leading zeros; six zeros keep all their digits.
C8_SixDigits ==
    (Normalized /\ Len(row.raw_code) = 6 /\ AllIn(row.raw_code, DigitChars)) =>
        /\ rec.market = "A"
        /\ rec.code # <<>>
        /\ \E k \in 0..5 :
              /\ rec.code = SubSeq(row.raw_code, k + 1, 6)
              /\ \A i \in 1..k : row.raw_code[i] = "0"
              /\ (rec.code[1] = "0" => (k = 0 /\ AllIn(row.raw_code, {"0"})))

C8_Witness ==
    /\ pc = "normalized"
    /\ row.raw_code = <<"0","0","0","0","0","0">>
    /\ rec.code = <<"0","0","0","0","0","0">>
    /\ rec.market = "A"

\* C9: a raw code of exactly four or exactly five decimal digits gets
\* market HK.
C9_FourFiveDigits ==
    (Normalized /\ Len(row.raw_code) \in {4, 5} /\ AllIn(row.raw_code, DigitChars))
        => rec.market = "HK"

C9_Witness ==
    /\ pc = "normalized"
    /\ row.raw_code = <<"0","5","7","0","5">>
    /\ rec = [name |-> <<"5","7","0","5">>, raw_code |-> row.raw_code,
              code |-> <<"5","7","0","5">>, market |-> "HK"]

\* C10 (as claimed): a raw code with at least one letter or digit always
\* gets a non-empty symbol, so no record pairs an empty code with a market
\* for such a raw code.
C10_SymbolNonEmpty ==
    (Normalized /\ \E i \in 1..Len(row.raw_code) : row.raw_code[i] \in AlnumChars)
        => rec.code # <<>>

\* C11: every record get_user_watchlist builds has a market that is exactly
\* one of A, HK, US, whatever the raw code and the name are: empty, malformed
\* or unresolved.
C11_MarketEnumerated == Normalized => rec.market \in {"A", "HK", "US"}

\* a row whose name resolves to nothing is recorded with market A
C11_Witness ==
    /\ pc = "normalized"
    /\ row = [name |-> <<"cjk", "cjk">>, raw_code |-> <<>>]
    /\ search = <<>>
    /\ rec.code = <<>>
    /\ rec.market = "A"

-----------------------------------------------------------------------------
(* Properties of generate_ai_content_for_watchlist, checked under Spec *)

Range(q) == {q[k] : k \in 1..Len(q)}

\* how many elements of `parts` were built from entry i
PartsOf(i) == Cardinality({k \in 1..Len(parts) : parts[k].src = i})

C2_BatchNeverBlocks == pc = "done" \/ ENABLED Next

\* C3: for the entry being resolved, _call_zhipu is called only after
\* get_ai_analysis_for_stock was called and returned no content; the static
\* text is emitted only after both were called and both returned no content;
\* and when get_ai_analysis_for_stock returned content, _call_zhipu is not
\* called.
C3_TiersInOrder ==
    /\ "_call_zhipu" \in Range(calls) =>
          /\ calls[1] = "get_ai_analysis_for_stock"
          /\ ~IsTrue(ai_text)
    /\ (pc \in {"loop", "done"} /\ parts # <<>> /\ parts[Len(parts)].kind = "unavailable") =>
          /\ {"get_ai_analysis_for_stock", "_call_zhipu"} \subseteq Range(calls)
          /\ ~IsTrue(ai_text)
          /\ ~IsTrue(z)
    /\ (pc \in {"loop", "done"} /\ parts # <<>> /\ parts[Len(parts)].tier = "fallback") =>
          /\ ~IsTrue(ai_text)
          /\ IsTrue(z)
    /\ IsTrue(ai_text) =>
          /\ "_call_zhipu" \notin Range(calls)
          /\ pc # "fallback"
          /\ parts[Len(parts)].tier = "primary"

C3_Witness ==
    /\ pc = "loop"
    /\ Len(parts) = 2
    /\ parts[1].tier = "primary"
    /\ parts[2].kind = "unavailable"
    /\ calls = <<"get_ai_analysis_for_stock", "GET /stock_ai_analysis", "_call_zhipu",
                 "chat.completions.create", "client.create">>

\* every part is a placeholder with a name: the text of line 500 for an entry
\* with a code, that of line 489 for one without
AllPlaceholders ==
    \A k \in 1..Len(parts) :
        /\ parts[k].src = k
        /\ parts[k].kind = IF watchlist[k].code # <<>> THEN "unavailable" ELSE "nocode"
        /\ parts[k].name # <<>>
        /\ watchlist[k].name # <<>> => parts[k].name = watchlist[k].name
        /\ output[k] = parts[k]

Unresolved(s) ==
    /\ s.raw_code = <<>>
    /\ _extract_code_from_name(s.name) = None
    /\ FirstLetters(s.name) = None

\* the entry the calls recorded in `calls` were made for
CallsEntry == IF pc \in {"fallback", "blocked"} THEN idx ELSE idx - 1

\* an unresolved entry is recorded with an empty code, and no call to
\* either source is made for it
UnresolvedBypassesSources ==
    /\ \A i \in 1..Len(watchlist) : Unresolved(watchlist[i]) => watchlist[i].code = <<>>
    /\ (calls # <<>> /\ CallsEntry \in 1..Len(watchlist)) => ~Unresolved(watchlist[CallsEntry])
    /\ \A k \in 1..Len(parts) :
          Unresolved(watchlist[parts[k].src]) => (parts[k].kind = "nocode" /\ parts[k].tier = "none")

CountOf(S) == Cardinality({k \in 1..Len(calls) : calls[k] \in S})

\* C13 (as claimed): no retries: for an entry, each tier is attempted once:
\* at most one request goes to the primary source and at most one to the
\* generative fallback service, also when that request fails.
C13_NoRetries ==
    /\ CountOf({"get_ai_analysis_for_stock"}) <= 1
    /\ CountOf({"GET /stock_ai_analysis"}) <= 1
    /\ CountOf({"_call_zhipu"}) <= 1
    /\ CountOf({"chat.completions.create", "client.create"}) <= 1

\* C14: the report entries stand in the order of the watchlist: of two
\* entries of the output, the one built from the earlier watchlist position
\* comes first, whatever tier produced each; so it is in `parts` all along.
C14_WatchlistOrder ==
    /\ \A k, l \in 1..Len(parts) : k < l => parts[k].src < parts[l].src
    /\ pc = "done" =>
          \A k, l \in 1..Len(output) : k < l => output[k].src < output[l].src

\* five entries from all four tiers, returned in watchlist order
C14_Witness ==
    /\ pc = "done"
    /\ Len(output) = 5
    /\ \A k \in 1..5 : output[k].src = k
    /\ <<output[1].tier, output[2].tier, output[3].tier, output[5].tier>>
          = <<"static", "none", "fallback", "primary">>

-----------------------------------------------------------------------------
(* Properties of generate_eod_summary_ai, checked under EodSpec *)

\* quote k of stock_quotes appears in one of the two lists of the report
QuoteShown(k) ==
    \/ \E j \in 1..Len(eod_content.top_gainers) : eod_content.top_gainers[j] = stock_quotes[k]
    \/ \E j \in 1..Len(eod_content.top_losers) : eod_content.top_losers[j] = stock_quotes[k]

\* C15 (as claimed): a quote whose change cannot be converted to a number
\* does not remove the other symbols from the report: the report is returned
\* with their quotes and the analyses, not the default content in its place.
C15_FailureConfined ==
    (/\ pc = "returned"
     /\ SortRaises(stock_quotes)
     /\ \E k \in 1..Len(stock_quotes) : ChangeKey(stock_quotes[k]).ok) =>
        /\ eod_content.kind = "report"
        /\ \A k \in 1..Len(stock_quotes) : ChangeKey(stock_quotes[k]).ok => QuoteShown(k)

-----------------------------------------------------------------------------
(* Properties of send_report, checked under SendSpec *)

\* the send_email calls made for user i, and those among them that returned b
SendsTo(i) == {k \in 1..Len(sent) : sent[k][1] = i}

SendsReturning(b) == {k \in 1..Len(sent) : sent[k][2] = b}

\* C16: with a valid report type, when send_report ends success_count +
\* failed_count is the number of users; success_count counts the users
\* send_email returned true for; a user without an address gets no
\* send_email call and is counted as failed, every other user gets exactly
\* one; a send that fails does not keep the users after it from being
\* processed.
C16_EveryUserAccounted ==
    report_type \in ValidTypes =>
        /\ success_count = Cardinality(SendsReturning(TRUE))
        /\ \A i \in 1..Len(users) :
              /\ Cardinality(SendsTo(i)) <= 1
              /\ EmailOf(users[i]) = "" => SendsTo(i) = {}
        /\ pc = "done" =>
              /\ success_count + failed_count = Len(users)
              /\ failed_count = Cardinality(SendsReturning(FALSE))
                                 + Cardinality({i \in 1..Len(users) : EmailOf(users[i]) = ""})
              /\ \A i \in 1..Len(users) :
                    EmailOf(users[i]) # "" => Cardinality(SendsTo(i)) = 1

\* a failed send for the first user, no address for the second, and the
\* third user is still served
C16_Witness ==
    /\ pc = "done"
    /\ report_type = "eod_summary"
    /\ Len(users) = 3
    /\ EmailOf(users[2]) = ""
    /\ sent = << <<1, FALSE>>, <<3, TRUE>> >>
    /\ success_count = 1
    /\ failed_count = 2

-----------------------------------------------------------------------------
(* Properties of the primary source, checked under ChainSpec *)

Asked == resp # NoExchange

FallbackAttempted == pc = "fallback" \/ "_call_zhipu" \in Range(calls)

\* a JSON object with none of the keys the code reads
NoKnownField(j) == j.t = "dict" /\ DOMAIN j.f \cap Range(AnalysisKeys) = {}

\* the cases the claim lists: connection failure, non-2xx status, empty
\* payload, unparseable payload
ClaimedFailure(r) ==
    \/ r.transport = "connection_error"
    \/ r.transport = "ok" /\ r.status \notin 200..299
    \/ r.transport = "ok" /\ ~r.is_json
    \/ r.transport = "ok" /\ r.is_json /\ (~IsTrue(r.json) \/ NoKnownField(r.json))

\* C5 (as claimed): in each of those cases get_ai_analysis_for_stock yields
\* no content and the fallback is attempted.
C5_FailuresAlike ==
    (Asked /\ ClaimedFailure(resp)) => (~IsTrue(ai_text) /\ FallbackAttempted)

\* no answer at all: the request failed, the status is not 200, or the
\* payload is empty (an empty body, or JSON that is null, "", 0, [] or {})
NoPayload(r) ==
    \/ r.transport # "ok"
    \/ r.status # 200
    \/ ~r.is_json /\ r.text = ""
    \/ r.is_json /\ ~IsTrue(r.json)

\* a payload the code cannot read an analysis from: a body that is not JSON,
\* or JSON in which no known field has a value
Unreadable(r) ==
    /\ ~NoPayload(r)
    /\ \/ ~r.is_json
       \/ r.json.t # "dict"
       \/ \A k \in DOMAIN r.json.f \cap Range(AnalysisKeys) : ~IsTrue(r.json.f[k])

\* C5 (amended): a failed request (connection failure, timeout), a status
\* other than 200 and an empty payload are tier failures alike:
\* get_ai_analysis_for_stock yields no content and the fallback is attempted.
\* A non-empty payload that is not JSON, or JSON in which no known field has
\* a value, is not a failure: its text (str() of the JSON value) is returned
\* as the content and the fallback is not attempted.
C5_FailuresAndUnreadable ==
    Asked =>
        /\ NoPayload(resp) => (~IsTrue(ai_text) /\ FallbackAttempted)
        /\ Unreadable(resp) =>
              /\ ai_text = (IF resp.is_json THEN StrOf(resp.json) ELSE PyStr(resp.text))
              /\ IsTrue(ai_text)
              /\ ~FallbackAttempted
              /\ parts[Len(parts)].tier = "primary"
              /\ parts[Len(parts)].body = ai_text

C5_Witness ==
    /\ pc = "loop"
    /\ resp = TextBody(200, "Bad Gateway")
    /\ ai_text = PyStr("Bad Gateway")
    /\ parts[Len(parts)].tier = "primary"
    /\ calls = <<"get_ai_analysis_for_stock", "GET /stock_ai_analysis">>

=============================================================================
